---- MODULE Spec2Model ----
(***************************************************************************)
(* A model of scripts/generate-releases.js: the batch pipeline that finds  *)
(* the metadata.json descriptors under repositories/, validates and groups *)
(* them by category, writes the category manifests, categories.json and    *)
(* releases.json into releases/, and removes the category manifests it did *)
(* not write.                                                              *)
(*                                                                         *)
(* Strings the script computes with (category names, app names, slugs,     *)
(* file names of the output directory) are sequences of one-character      *)
(* strings, so that toLowerCase, replace, startsWith, endsWith and         *)
(* localeCompare are computed and not assumed.  Names of the input tree    *)
(* (directory and file names) and object keys are only compared for        *)
(* equality and are plain strings.  A file of the output directory is the  *)
(* value JSON.stringify was given: serialisation is deterministic, so two  *)
(* files are byte-identical exactly when these values are equal.           *)
(***************************************************************************)
EXTENDS Integers, Sequences, FiniteSets, TLC

\* ------------------------------------------------------------------ bounds

\* The largest number of app directories under repositories/.
MaxFiles == 2

\* The largest number of I/O operations that fail in one run.
MaxFaults == 1

\* ----------------------------------------------------------------- strings

UpperCase ==
  << "A","B","C","D","E","F","G","H","I","J","K","L","M",
     "N","O","P","Q","R","S","T","U","V","W","X","Y","Z" >>

LowerCase ==
  << "a","b","c","d","e","f","g","h","i","j","k","l","m",
     "n","o","p","q","r","s","t","u","v","w","x","y","z" >>

Digits == << "0","1","2","3","4","5","6","7","8","9" >>

Range(s) == { s[i] : i \in DOMAIN s }

\* The characters toLowerCase changes, and the characters /[a-z0-9]/ matches.
UpperCaseChars == Range(UpperCase)

LowerCaseChars == Range(LowerCase)

DigitChars == Range(Digits)

AlnumChars == LowerCaseChars \cup DigitChars

IndexOf(c, s) == CHOOSE i \in DOMAIN s : s[i] = c

\* String.prototype.toLowerCase, one character.
LowerChar(c) ==
  IF c \in UpperCaseChars THEN LowerCase[IndexOf(c, UpperCase)] ELSE c

toLowerCase(s) == [ i \in 1..Len(s) |-> LowerChar(s[i]) ]

\* s.replace(/[^a-z0-9]/g, '-')
replaceNonAlnum(s) ==
  [ i \in 1..Len(s) |->
      IF s[i] \in AlnumChars THEN s[i] ELSE "-" ]

\* category.toLowerCase().replace(/[^a-z0-9]/g, '-')
slugOfCategory(category) == replaceNonAlnum(toLowerCase(category))

startsWith(s, p) == Len(s) >= Len(p) /\ SubSeq(s, 1, Len(p)) = p

endsWith(s, p) ==
  Len(s) >= Len(p) /\ SubSeq(s, Len(s) - Len(p) + 1, Len(s)) = p

\* s.replace(/\/+/g, '/'): every run of slashes becomes one slash.
RECURSIVE collapseSlashes(_)
collapseSlashes(s) ==
  IF Len(s) <= 1 THEN s
  ELSE IF s[1] = "/" /\ s[2] = "/" THEN collapseSlashes(Tail(s))
  ELSE << s[1] >> \o collapseSlashes(Tail(s))

\* The collation key of one character: letters compare by their place in
\* the alphabet whatever their case, digits and punctuation before letters.
CollationRank(c) ==
  IF LowerChar(c) \in LowerCaseChars
    THEN 100 + IndexOf(LowerChar(c), LowerCase)
    ELSE IF c \in DigitChars THEN 50 + IndexOf(c, Digits) ELSE 1

\* The case of one character, compared when the letters are the same:
\* lower case first.
CaseRank(c) == IF c \in UpperCaseChars THEN 1 ELSE 0

RECURSIVE comparePrimary(_, _)
comparePrimary(a, b) ==
  IF a = << >> /\ b = << >> THEN 0
  ELSE IF a = << >> THEN -1
  ELSE IF b = << >> THEN 1
  ELSE IF CollationRank(a[1]) < CollationRank(b[1]) THEN -1
  ELSE IF CollationRank(a[1]) > CollationRank(b[1]) THEN 1
  ELSE comparePrimary(Tail(a), Tail(b))

\* Two strings with the same letters: the first difference of case decides.
RECURSIVE compareCase(_, _)
compareCase(a, b) ==
  IF a = << >> \/ b = << >> THEN 0
  ELSE IF CaseRank(a[1]) < CaseRank(b[1]) THEN -1
  ELSE IF CaseRank(a[1]) > CaseRank(b[1]) THEN 1
  ELSE compareCase(Tail(a), Tail(b))

\* a.localeCompare(b): the letters first, the case only to break a tie.
localeCompare(a, b) ==
  IF comparePrimary(a, b) # 0 THEN comparePrimary(a, b) ELSE compareCase(a, b)

\* (a, b) => a.name.localeCompare(b.name)
byName(a, b) == localeCompare(a["name"], b["name"])

\* Array.prototype.sort is stable: an element goes after the elements that
\* compare equal to it and came before it.
RECURSIVE insertByName(_, _)
insertByName(x, s) ==
  IF s = << >> THEN << x >>
  ELSE IF byName(x, Head(s)) < 0 THEN << x >> \o s
  ELSE << Head(s) >> \o insertByName(x, Tail(s))

\* Mutant of sortByName: the list is left in the order it was filled in.
sortByName_unsorted(apps) == apps

\* apps.sort((a, b) => a.name.localeCompare(b.name))
RECURSIVE sortByName(_)
sortByName(apps) ==
  IF apps = << >> THEN << >>
  ELSE insertByName(apps[Len(apps)],
                    sortByName(SubSeq(apps, 1, Len(apps) - 1)))

RECURSIVE SumSeq(_)
SumSeq(s) == IF s = << >> THEN 0 ELSE Head(s) + SumSeq(Tail(s))

RECURSIVE Flatten(_)
Flatten(ss) == IF ss = << >> THEN << >> ELSE Head(ss) \o Flatten(Tail(ss))

\* ------------------------------------------------------- the input tree

\* A directory entry of fs.readdirSync(dir, { withFileTypes: true }).
Dir(name, items) == [ isDirectory |-> TRUE, name |-> name, items |-> items ]

File(name, content) ==
  [ isDirectory |-> FALSE, name |-> name, content |-> content ]

\* The files of a directory's entries, depth first, in readdir order.
RECURSIVE findInItems(_, _)
findInItems(dir, items) ==
  IF items = << >> THEN << >>
  ELSE LET item == Head(items)
           fullPath == Append(dir, item.name)
           found == IF item.isDirectory
                      THEN findInItems(fullPath, item.items)
                      ELSE IF item.name = "metadata.json"
                             THEN << fullPath >>
                             ELSE << >>
       IN  found \o findInItems(dir, Tail(items))

\* findMetadataFiles(repositoriesDir): the empty list when the directory
\* does not exist.
findMetadataFiles(root) ==
  IF ~root.exists THEN << >>
  ELSE findInItems(<< "repositories" >>, root.items)

\* The content of the file at a path below a directory's entries.
RECURSIVE contentAt(_, _)
contentAt(items, path) ==
  LET item == CHOOSE it \in Range(items) : it.name = Head(path)
  IN  IF Len(path) = 1 THEN item.content
      ELSE contentAt(item.items, Tail(path))

\* fs.readFileSync(filePath, 'utf8') followed by JSON.parse: the object as a
\* function from its keys, or a failure.
readJson(root, filePath) == contentAt(root.items, Tail(filePath))

\* path.dirname(filePath).replace(/\\/g, '/')
dirname(filePath) == SubSeq(filePath, 1, Len(filePath) - 1)

\* The JSON value null; no string is equal to it, since the characters of a
\* string are one-character strings.
JsonNull == << "null" >>

requiredFields ==
  << "name", "category", "description", "version",
     "commit", "owner", "repo", "path" >>

\* Mutant of isMissing: the empty string passes for a value.
isMissing_emptyAccepted(metadata, field) ==
  \/ field \notin DOMAIN metadata
  \/ metadata[field] = JsonNull

\* !(field in metadata) || metadata[field] === null
\*   || metadata[field] === undefined || metadata[field] === ''
isMissing(metadata, field) ==
  \/ field \notin DOMAIN metadata
  \/ metadata[field] = JsonNull
  \/ metadata[field] = << >>

\* The place in requiredFields of the first missing field, 0 when none is.
firstMissing(metadata) ==
  IF \E i \in DOMAIN requiredFields : isMissing(metadata, requiredFields[i])
    THEN CHOOSE i \in DOMAIN requiredFields :
           /\ isMissing(metadata, requiredFields[i])
           /\ \A j \in 1..(i - 1) : ~isMissing(metadata, requiredFields[j])
    ELSE 0

\* What console.warn is given: the path and the field, or the path and that
\* an error was caught.
Warning(path, about) == [ path |-> path, about |-> about ]

\* loadMetadata(filePath): the metadata (null when invalid) and the warnings
\* it logs.
loadMetadata(root, filePath) ==
  LET content == readJson(root, filePath)
  IN  IF ~content.parses
        THEN [ valid |-> FALSE, metadata |-> JsonNull,
               warnings |-> << Warning(filePath, "error") >> ]
        ELSE IF firstMissing(content.value) # 0
          THEN [ valid |-> FALSE, metadata |-> JsonNull,
                 warnings |->
                   << Warning(filePath,
                              requiredFields[firstMissing(content.value)]) >> ]
          ELSE [ valid |-> TRUE,
                 metadata |->
                   ("filePath" :> dirname(filePath)) @@ content.value,
                 warnings |-> << >> ]

\* ----------------------------------------------------- the output values

CategoryPrefix == << "c","a","t","e","g","o","r","y","-" >>

JsonSuffix == << ".","j","s","o","n" >>

\* `category-${category.toLowerCase().replace(/[^a-z0-9]/g, '-')}.json`
releaseFileName(category) ==
  CategoryPrefix \o slugOfCategory(category) \o JsonSuffix

categoriesFileName ==
  << "c","a","t","e","g","o","r","i","e","s" >> \o JsonSuffix

releasesFileName == << "r","e","l","e","a","s","e","s" >> \o JsonSuffix

\* The keys the category files leave out.
strippedKeys ==
  { "commit", "owner", "repo", "path", "filePath", "category", "files" }

\* const { commit, owner, repo, path, filePath, category, files,
\*         ...cleanApp } = app; cleanApp.slug = `${owner}/${repo}/${app.name}`
cleanApp(app) ==
  [ k \in (DOMAIN app \ strippedKeys) \cup { "slug" } |->
      IF k = "slug"
        THEN app["owner"] \o << "/" >> \o app["repo"] \o << "/" >> \o app["name"]
        ELSE app[k] ]

filteredApps(apps) == [ i \in 1..Len(apps) |-> cleanApp(apps[i]) ]

\* releaseData of one category, its apps already sorted.
releaseData(category, apps) ==
  [ category |-> category, count |-> Len(apps), apps |-> filteredApps(apps) ]

\* `${app.owner}/${app.repo}${app.path}${app.name}`.replace(/\/+/g, '/')
releaseSlug(app) ==
  collapseSlashes(app["owner"] \o << "/" >> \o app["repo"]
                    \o app["path"] \o app["name"])

releaseEntry(app) ==
  [ name |-> app["name"], version |-> app["version"], slug |-> releaseSlug(app) ]

\* Object.entries(categorizedApps) is kept as the sequence of its entries,
\* in insertion order.
appsOf(categorizedApps, category) ==
  (CHOOSE e \in Range(categorizedApps) : e.category = category).apps

hasCategory(categorizedApps, category) ==
  \E e \in Range(categorizedApps) : e.category = category

\* categorizedApps[category].push(metadata), the list created when absent.
pushApp(categorizedApps, metadata) ==
  IF hasCategory(categorizedApps, metadata["category"])
    THEN [ i \in DOMAIN categorizedApps |->
             IF categorizedApps[i].category = metadata["category"]
               THEN [ categorizedApps[i] EXCEPT !.apps = Append(@, metadata) ]
               ELSE categorizedApps[i] ]
    ELSE Append(categorizedApps,
                [ category |-> metadata["category"], apps |-> << metadata >> ])

\* { name, slug, count } of one category with a release file.
categoryEntry(categorizedApps, category) ==
  [ name |-> category,
    slug |-> slugOfCategory(category),
    count |-> Len(appsOf(categorizedApps, category)) ]

\* Object.values(categorizedApps).reduce((sum, apps) => sum + apps.length, 0)
totalApps(categorizedApps) ==
  SumSeq([ i \in DOMAIN categorizedApps |-> Len(categorizedApps[i].apps) ])

categoriesData(categoriesWithReleases, categorizedApps) ==
  [ totalCategories |-> Len(categoriesWithReleases),
    totalApps |-> totalApps(categorizedApps),
    categories |->
      sortByName([ i \in DOMAIN categoriesWithReleases |->
        categoryEntry(categorizedApps, categoriesWithReleases[i]) ]) ]

\* allApps: every app of every category, in the order of the entries.
allApps(categorizedApps) ==
  Flatten([ i \in DOMAIN categorizedApps |->
    [ j \in DOMAIN categorizedApps[i].apps |->
        releaseEntry(categorizedApps[i].apps[j]) ] ])

releasesData(categorizedApps) ==
  [ count |-> Len(allApps(categorizedApps)),
    apps |-> sortByName(allApps(categorizedApps)) ]

\* Mutant of writeFile: fs.appendFileSync, the data goes after what the file
\* holds.
writeFile_appending(dir, name, data) ==
  [ dir EXCEPT !.files =
      [ n \in DOMAIN dir.files \cup { name } |->
          IF n # name THEN dir.files[n]
          ELSE IF name \in DOMAIN dir.files
            THEN [ before |-> dir.files[name], appended |-> data ]
          ELSE data ] ]

\* fs.writeFileSync(path.join(releasesDir, name), JSON.stringify(data))
writeFile(dir, name, data) ==
  [ dir EXCEPT !.files =
      [ n \in DOMAIN dir.files \cup { name } |->
          IF n = name THEN data ELSE dir.files[n] ] ]

\* fs.unlinkSync(path.join(releasesDir, name))
unlinkFile(dir, name) ==
  [ dir EXCEPT !.files = [ n \in DOMAIN dir.files \ { name } |-> dir.files[n] ] ]

\* fs.readdirSync(releasesDir).filter(file =>
\*   file.startsWith('category-') && file.endsWith('.json'))
existingCategoryFiles(dir) ==
  { n \in DOMAIN dir.files :
      startsWith(n, CategoryPrefix) /\ endsWith(n, JsonSuffix) }

\* --------------------------------------------------------------- inputs

Names == { << "b","a","r" >>, << "F","o","o" >> }

DevTools == << "D","e","v"," ","T","o","o","l","s" >>

devtools == << "d","e","v","-","t","o","o","l","s" >>

Games == << "G","a","m","e","s" >>

\* The category names of the trees.  None is the name of a property every
\* object inherits ("constructor", "toString"): for those categorizedApps[
\* category] is not a list, push throws and main() ends in the fatal exit.
Categories == { DevTools, devtools, Games }

AppDirNames == << "app0", "app1", "app2", "app3", "app4", "app5" >>

\* The descriptor of the i-th app directory: owner and version tell the
\* descriptors of one tree apart.
Descriptor(i, name, category) ==
  [ k \in Range(requiredFields) \cup { "files" } |->
      CASE k = "name" -> name
        [] k = "category" -> category
        [] k = "description" -> << "d" >>
        [] k = "version" -> << Digits[i + 1] >>
        [] k = "commit" -> << "c" >>
        [] k = "owner" -> << "o", Digits[i + 1] >>
        [] k = "repo" -> << "r" >>
        [] k = "path" -> << "/", "p", "/" >>
        [] OTHER -> << "f" >> ]

DefectKinds == { "absent", "null", "empty" }

\* A descriptor with one field left out, null or the empty string.
Damaged(d, field, kind) ==
  [ k \in IF kind = "absent" THEN DOMAIN d \ { field } ELSE DOMAIN d |->
      IF k = field
        THEN IF kind = "null" THEN JsonNull ELSE << >>
        ELSE d[k] ]

Parsed(value) == [ parses |-> TRUE, value |-> value ]

\* A file JSON.parse throws on (or readFileSync cannot read).
Malformed == [ parses |-> FALSE ]

\* An app directory without a metadata.json.
NoFile == [ none |-> TRUE ]

\* The i-th app directory: a README, and a metadata.json unless it has none.
AppDir(i, content) ==
  Dir(AppDirNames[i + 1],
      << File("README.md", Malformed) >>
        \o (IF content = NoFile THEN << >>
            ELSE << File("metadata.json", content) >>))

ValidContents(i) ==
  { Parsed(Descriptor(i, n, c)) : n \in Names, c \in Categories }

\* The contents an app directory of a tree may hold.
Contents(i) ==
  ValidContents(i)
    \cup { Parsed(Damaged(Descriptor(i, << "F","o","o" >>, Games),
                          "category", "absent")) }

\* The lists of n app directories whose i-th content is of contents[i].
RECURSIVE AppDirsOf(_, _)
AppDirsOf(n, contents) ==
  IF n = 0 THEN { << >> }
  ELSE { Append(dirs, AppDir(n, c)) :
           dirs \in AppDirsOf(n - 1, contents), c \in contents[n] }

TreesOf(n, contents) ==
  { [ exists |-> TRUE, items |-> dirs ] : dirs \in AppDirsOf(n, contents) }

MissingRoot == [ exists |-> FALSE, items |-> << >> ]

\* Every tree of at most MaxFiles app directories, and the missing root.
Trees ==
  { MissingRoot }
    \cup UNION { TreesOf(n, [ i \in 1..n |-> Contents(i) ]) : n \in 0..MaxFiles }

EmptyDir == [ exists |-> TRUE, files |-> [ n \in { } |-> << >> ] ]

\* What an earlier run over one app of a category left in releases/.
OutputOf(category) ==
  LET old == ("filePath" :> << "repositories", "app0" >>)
               @@ Descriptor(0, << "F","o","o" >>, category)
      grouped == << [ category |-> category, apps |-> << old >> ] >>
  IN  writeFile(
        writeFile(
          writeFile(EmptyDir, releaseFileName(category),
                    releaseData(category, << old >>)),
          categoriesFileName, categoriesData(<< category >>, grouped)),
        releasesFileName, releasesData(grouped))

\* The output directory before the first run.
NoDir == [ exists |-> FALSE, files |-> [ n \in { } |-> << >> ] ]

PriorDirs == { NoDir, OutputOf(DevTools), OutputOf(Games) }

\* What categories.json (the allow-list, beside repositories/) may be: an
\* array of names, or a file that cannot be read or parsed.
AllowListFiles ==
  { Malformed, Parsed(<< Games >>), Parsed(<< DevTools, devtools >>) }

\* loadValidCategories()
loadValidCategories(file) ==
  IF file.parses
    THEN [ value |-> file.value, warnings |-> << >> ]
    ELSE [ value |-> << >>,
           warnings |-> << Warning(<< "categories.json" >>, "error") >> ]

\* ---------------------------------------------------------------- state

VARIABLES
  repositories,            \* the input tree under repositories/
  allowList,               \* the file categories.json beside it
  releasesDir,             \* the output directory releases/
  prior,                   \* releases/ before the first run
  pass,                    \* "first", "again" (run again) or "replay"
  firstRun,                \* what the first run ended with
  pc,                      \* where main() is
  exitCode,                \* the exit status, -1 while running
  validCategories,
  metadataFiles,
  cursor,                  \* the place of the loop over metadataFiles
  categorizedApps,
  processedCount,
  skippedCount,
  categoryCursor,          \* the place of the loop over categorizedApps
  releaseFiles,
  categoriesWithReleases,
  existingReleaseFiles,    \* the listed files the cleanup has yet to look at
  warnings,                \* what console.warn was given, in order
  errors                   \* the writes and removals that threw

vars ==
  << repositories, allowList, releasesDir, prior, pass, firstRun, pc, exitCode,
     validCategories, metadataFiles, cursor, categorizedApps, processedCount,
     skippedCount, categoryCursor, releaseFiles, categoriesWithReleases,
     existingReleaseFiles, warnings, errors >>

environment == << repositories, allowList, prior, pass, firstRun >>

locals ==
  << validCategories, metadataFiles, cursor, categorizedApps, processedCount,
     skippedCount, categoryCursor, releaseFiles, categoriesWithReleases,
     existingReleaseFiles >>

\* The locals of main() as it starts.
FreshRun ==
  /\ pc' = "start"
  /\ exitCode' = -1
  /\ validCategories' = << >>
  /\ metadataFiles' = << >>
  /\ cursor' = 1
  /\ categorizedApps' = << >>
  /\ processedCount' = 0
  /\ skippedCount' = 0
  /\ categoryCursor' = 1
  /\ releaseFiles' = << >>
  /\ categoriesWithReleases' = << >>
  /\ existingReleaseFiles' = { }
  /\ warnings' = << >>
  /\ errors' = { }

InitFrom(trees, dirs) ==
  /\ repositories \in trees
  /\ allowList = Parsed(<< Games >>)
  /\ prior \in dirs
  /\ releasesDir = prior
  /\ pass = "first"
  /\ firstRun = [ dir |-> prior, errors |-> { } ]
  /\ pc = "start"
  /\ exitCode = -1
  /\ validCategories = << >>
  /\ metadataFiles = << >>
  /\ cursor = 1
  /\ categorizedApps = << >>
  /\ processedCount = 0
  /\ skippedCount = 0
  /\ categoryCursor = 1
  /\ releaseFiles = << >>
  /\ categoriesWithReleases = << >>
  /\ existingReleaseFiles = { }
  /\ warnings = << >>
  /\ errors = { }

Init == InitFrom(Trees, PriorDirs)

Failure(op, file, category) ==
  [ op |-> op, file |-> file, category |-> category ]

\* In the first run any I/O operation may fail, while fewer than MaxFaults
\* did.  A later run differs from the first in nothing but what is said of
\* it: the operations that failed fail again, and no other does.
MayFail(failure) ==
  IF pass = "first" THEN Cardinality(errors) < MaxFaults
  ELSE failure \in firstRun.errors

MaySucceed(failure) == pass = "first" \/ failure \notin firstRun.errors

\* --------------------------------------------------------------- actions

\* Mutant of Start: no early return when no descriptor file is found.
Start_withoutEarlyReturn ==
  /\ pc = "start"
  /\ validCategories' = loadValidCategories(allowList).value
  /\ warnings' = warnings \o loadValidCategories(allowList).warnings
  /\ metadataFiles' = findMetadataFiles(repositories)
  /\ pc' = IF findMetadataFiles(repositories) = << >> THEN "mkdir" ELSE "group"
  /\ UNCHANGED << environment, releasesDir, exitCode, cursor, categorizedApps,
                  processedCount, skippedCount, categoryCursor, releaseFiles,
                  categoriesWithReleases, existingReleaseFiles, errors >>

\* main(), lines 69-88: the allow-list, the descriptor files, and the early
\* return when there are none.
Start ==
  /\ pc = "start"
  /\ validCategories' = loadValidCategories(allowList).value
  /\ warnings' = warnings \o loadValidCategories(allowList).warnings
  /\ metadataFiles' = findMetadataFiles(repositories)
  /\ IF findMetadataFiles(repositories) = << >>
       THEN pc' = "done" /\ exitCode' = 0
       ELSE pc' = "group" /\ exitCode' = exitCode
  /\ UNCHANGED << environment, releasesDir, cursor, categorizedApps,
                  processedCount, skippedCount, categoryCursor, releaseFiles,
                  categoriesWithReleases, existingReleaseFiles, errors >>

\* Mutant of LoadNext: a descriptor whose category is not in the allow-list
\* is skipped.
LoadNext_enforcingAllowList ==
  /\ pc = "group"
  /\ LET loaded == loadMetadata(repositories, metadataFiles[cursor])
     IN  /\ IF loaded.valid
                /\ loaded.metadata["category"] \in Range(validCategories)
              THEN /\ categorizedApps' = pushApp(categorizedApps, loaded.metadata)
                   /\ processedCount' = processedCount + 1
                   /\ skippedCount' = skippedCount
              ELSE /\ categorizedApps' = categorizedApps
                   /\ processedCount' = processedCount
                   /\ skippedCount' = skippedCount + 1
         /\ warnings' = warnings \o loaded.warnings
  /\ cursor' = cursor + 1
  /\ pc' = IF cursor = Len(metadataFiles) THEN "mkdir" ELSE "group"
  /\ UNCHANGED << environment, releasesDir, exitCode, validCategories,
                  metadataFiles, categoryCursor, releaseFiles,
                  categoriesWithReleases, existingReleaseFiles, errors >>

\* One turn of the loop of lines 90-105.
LoadNext ==
  /\ pc = "group"
  /\ LET loaded == loadMetadata(repositories, metadataFiles[cursor])
     IN  /\ IF loaded.valid
              THEN /\ categorizedApps' = pushApp(categorizedApps, loaded.metadata)
                   /\ processedCount' = processedCount + 1
                   /\ skippedCount' = skippedCount
              ELSE /\ categorizedApps' = categorizedApps
                   /\ processedCount' = processedCount
                   /\ skippedCount' = skippedCount + 1
         /\ warnings' = warnings \o loaded.warnings
  /\ cursor' = cursor + 1
  /\ pc' = IF cursor = Len(metadataFiles) THEN "mkdir" ELSE "group"
  /\ UNCHANGED << environment, releasesDir, exitCode, validCategories,
                  metadataFiles, categoryCursor, releaseFiles,
                  categoriesWithReleases, existingReleaseFiles, errors >>

\* Where main() goes after the directory is there: the loop of line 119
\* has no turn when no descriptor was valid.
AfterMkdir == IF categorizedApps = << >> THEN "categories" ELSE "manifests"

\* Lines 110-114: fs.mkdirSync is not in a try block, so its failure ends
\* main() and the process exits 1.
EnsureDir ==
  /\ pc = "mkdir"
  /\ \/ /\ releasesDir.exists
        /\ pc' = AfterMkdir
        /\ UNCHANGED << releasesDir, exitCode >>
     \/ /\ ~releasesDir.exists
        /\ MaySucceed(Failure("mkdir", << >>, << >>))
        /\ releasesDir' = [ releasesDir EXCEPT !.exists = TRUE ]
        /\ pc' = AfterMkdir
        /\ UNCHANGED exitCode
     \/ /\ ~releasesDir.exists
        /\ MayFail(Failure("mkdir", << >>, << >>))
        /\ pc' = "failed"
        /\ exitCode' = 1
        /\ UNCHANGED releasesDir
  /\ UNCHANGED << environment, locals, warnings, errors >>

\* Mutant of WriteManifest: the write is not in a try block, so its failure
\* ends main() and the process exits 1.
WriteManifest_uncaught ==
  /\ pc = "manifests"
  /\ LET category == categorizedApps[categoryCursor].category
         apps == sortByName(categorizedApps[categoryCursor].apps)
         releaseFile == releaseFileName(category)
     IN  /\ categorizedApps' =
              [ categorizedApps EXCEPT ![categoryCursor].apps = apps ]
         /\ \/ /\ MaySucceed(Failure("write", releaseFile, category))
               /\ releasesDir' =
                    writeFile(releasesDir, releaseFile,
                              releaseData(category, apps))
               /\ releaseFiles' = Append(releaseFiles, releaseFile)
               /\ categoriesWithReleases' =
                    Append(categoriesWithReleases, category)
               /\ pc' = IF categoryCursor = Len(categorizedApps)
                          THEN "categories" ELSE "manifests"
               /\ UNCHANGED << errors, exitCode >>
            \/ /\ MayFail(Failure("write", releaseFile, category))
               /\ errors' = errors \cup { Failure("write", releaseFile, category) }
               /\ pc' = "failed"
               /\ exitCode' = 1
               /\ UNCHANGED << releasesDir, releaseFiles,
                               categoriesWithReleases >>
  /\ categoryCursor' = categoryCursor + 1
  /\ UNCHANGED << environment, validCategories, metadataFiles,
                  cursor, processedCount, skippedCount, existingReleaseFiles,
                  warnings >>

\* One turn of the loop of lines 119-149: the category's apps are sorted in
\* place, and the file is written or the write throws and is logged.
WriteManifest ==
  /\ pc = "manifests"
  /\ LET category == categorizedApps[categoryCursor].category
         apps == sortByName(categorizedApps[categoryCursor].apps)
         releaseFile == releaseFileName(category)
     IN  /\ categorizedApps' =
              [ categorizedApps EXCEPT ![categoryCursor].apps = apps ]
         /\ \/ /\ MaySucceed(Failure("write", releaseFile, category))
               /\ releasesDir' =
                    writeFile(releasesDir, releaseFile,
                              releaseData(category, apps))
               /\ releaseFiles' = Append(releaseFiles, releaseFile)
               /\ categoriesWithReleases' =
                    Append(categoriesWithReleases, category)
               /\ UNCHANGED errors
            \/ /\ MayFail(Failure("write", releaseFile, category))
               /\ errors' = errors \cup { Failure("write", releaseFile, category) }
               /\ UNCHANGED << releasesDir, releaseFiles,
                               categoriesWithReleases >>
  /\ categoryCursor' = categoryCursor + 1
  /\ pc' = IF categoryCursor = Len(categorizedApps)
             THEN "categories" ELSE "manifests"
  /\ UNCHANGED << environment, exitCode, validCategories, metadataFiles,
                  cursor, processedCount, skippedCount, existingReleaseFiles,
                  warnings >>

\* Lines 151-174: categories.json, when a release file was written.
WriteCategoriesIndex ==
  /\ pc = "categories"
  /\ \/ /\ Len(categoriesWithReleases) = 0
        /\ UNCHANGED << releasesDir, errors >>
     \/ /\ Len(categoriesWithReleases) > 0
        /\ MaySucceed(Failure("write", categoriesFileName, << >>))
        /\ releasesDir' =
             writeFile(releasesDir, categoriesFileName,
                       categoriesData(categoriesWithReleases, categorizedApps))
        /\ UNCHANGED errors
     \/ /\ Len(categoriesWithReleases) > 0
        /\ MayFail(Failure("write", categoriesFileName, << >>))
        /\ errors' = errors \cup { Failure("write", categoriesFileName, << >>) }
        /\ UNCHANGED releasesDir
  /\ pc' = "releases"
  /\ UNCHANGED << environment, locals, exitCode, warnings >>

\* Lines 176-209: releases.json, when a descriptor was valid.
WriteReleasesIndex ==
  /\ pc = "releases"
  /\ \/ /\ Len(categorizedApps) = 0
        /\ UNCHANGED << releasesDir, errors >>
     \/ /\ Len(categorizedApps) > 0
        /\ MaySucceed(Failure("write", releasesFileName, << >>))
        /\ releasesDir' =
             writeFile(releasesDir, releasesFileName,
                       releasesData(categorizedApps))
        /\ UNCHANGED errors
     \/ /\ Len(categorizedApps) > 0
        /\ MayFail(Failure("write", releasesFileName, << >>))
        /\ errors' = errors \cup { Failure("write", releasesFileName, << >>) }
        /\ UNCHANGED releasesDir
  /\ pc' = "list"
  /\ UNCHANGED << environment, locals, exitCode, warnings >>

\* Lines 212-213: the category files now in releases/.
ListExisting ==
  /\ pc = "list"
  /\ existingReleaseFiles' = existingCategoryFiles(releasesDir)
  /\ pc' = "cleanup"
  /\ UNCHANGED << environment, releasesDir, exitCode, validCategories,
                  metadataFiles, cursor, categorizedApps, processedCount,
                  skippedCount, categoryCursor, releaseFiles,
                  categoriesWithReleases, warnings, errors >>

\* One turn of the loop of lines 215-224.  The turns touch different files,
\* so the order readdirSync lists them in does not change the outcome.
RemoveObsolete ==
  /\ pc = "cleanup"
  /\ \E existingFile \in existingReleaseFiles :
       /\ existingReleaseFiles' = existingReleaseFiles \ { existingFile }
       /\ \/ /\ existingFile \in Range(releaseFiles)
             /\ UNCHANGED << releasesDir, errors, warnings >>
          \/ /\ existingFile \notin Range(releaseFiles)
             /\ MaySucceed(Failure("unlink", existingFile, << >>))
             /\ releasesDir' = unlinkFile(releasesDir, existingFile)
             /\ UNCHANGED << errors, warnings >>
          \/ /\ existingFile \notin Range(releaseFiles)
             /\ MayFail(Failure("unlink", existingFile, << >>))
             /\ errors' = errors \cup { Failure("unlink", existingFile, << >>) }
             /\ warnings' =
                  Append(warnings, Warning(<< "releases" >>, "error"))
             /\ UNCHANGED releasesDir
  /\ UNCHANGED << environment, pc, exitCode, validCategories, metadataFiles,
                  cursor, categorizedApps, processedCount, skippedCount,
                  categoryCursor, releaseFiles, categoriesWithReleases >>

\* Lines 226-241: the summary; main() returns and the process exits 0.
Finish ==
  /\ pc = "cleanup"
  /\ existingReleaseFiles = { }
  /\ pc' = "done"
  /\ exitCode' = 0
  /\ UNCHANGED << environment, releasesDir, locals, warnings, errors >>

\* The script is run a second time after a run in which nothing failed,
\* the tree as it was.
Rerun ==
  /\ pc = "done"
  /\ pass = "first"
  /\ errors = { }
  /\ pass' = "again"
  /\ firstRun' = [ dir |-> releasesDir, errors |-> errors ]
  /\ FreshRun
  /\ UNCHANGED << repositories, allowList, prior, releasesDir >>

\* releases/ is put back as it was before the first run, the allow-list is
\* edited, and the script is run once more.
Replay ==
  /\ pc = "done"
  /\ pass = "first"
  /\ pass' = "replay"
  /\ firstRun' = [ dir |-> releasesDir, errors |-> errors ]
  /\ allowList' \in AllowListFiles \ { allowList }
  /\ releasesDir' = prior
  /\ FreshRun
  /\ UNCHANGED << repositories, prior >>

Next ==
  \/ Start
  \/ LoadNext
  \/ EnsureDir
  \/ WriteManifest
  \/ WriteCategoriesIndex
  \/ WriteReleasesIndex
  \/ ListExisting
  \/ RemoveObsolete
  \/ Finish
  \/ Rerun
  \/ Replay

Spec == Init /\ [][Next]_vars

\* ----------------------------------- the loader on damaged descriptors

\* Every way one descriptor can miss a required field, or two.
DamagedContents(i) ==
  LET d == Descriptor(i, << "F","o","o" >>, Games)
  IN  { Parsed(Damaged(d, f, k)) : f \in Range(requiredFields), k \in DefectKinds }
        \cup { Parsed(Damaged(Damaged(d, f, "absent"), g, "absent")) :
                 f \in Range(requiredFields), g \in Range(requiredFields) }
        \cup { Malformed, NoFile }

SoundContents(i) ==
  { Parsed(Descriptor(i, << "F","o","o" >>, Games)),
    Parsed(Descriptor(i, << "b","a","r" >>, DevTools)) }

\* The trees with one app directory that is damaged, or has no descriptor,
\* among sound ones.
LoaderTrees ==
  { MissingRoot }
    \cup UNION { TreesOf(n, [ i \in 1..n |->
                   IF i = bad THEN DamagedContents(i) ELSE SoundContents(i) ]) :
                 n \in 1..MaxFiles, bad \in 1..MaxFiles }

InitLoader == InitFrom(LoaderTrees, { NoDir, OutputOf(DevTools) })

SpecLoader == InitLoader /\ [][Next]_vars

\* ------------------------------------------- what the claims speak about

\* releases/ as the current run found it.
Before == IF pass = "again" THEN firstRun.dir ELSE prior

\* The app directories of the tree that hold a metadata.json.
Described ==
  { k \in DOMAIN repositories.items :
      \E f \in Range(repositories.items[k].items) : f.name = "metadata.json" }

ContentOf(k) ==
  (CHOOSE f \in Range(repositories.items[k].items) :
     f.name = "metadata.json").content

DirOf(k) == << "repositories", repositories.items[k].name >>

\* The required fields a descriptor does not have, or has null or empty.
MissingFields(value) ==
  { f \in Range(requiredFields) :
      f \notin DOMAIN value \/ value[f] \in { JsonNull, << >> } }

\* A valid descriptor: it parses and all eight required fields are there.
IsValid(k) ==
  ContentOf(k).parses /\ MissingFields(ContentOf(k).value) = { }

ValidDirs == { k \in Described : IsValid(k) }

ValidIn(category) ==
  { k \in ValidDirs : ContentOf(k).value["category"] = category }

\* The entries of a list of apps that are the descriptor of directory k:
\* its name and its version, which no other descriptor of the tree has.
EntriesOf(k, apps) ==
  { j \in DOMAIN apps :
      /\ apps[j]["name"] = ContentOf(k).value["name"]
      /\ apps[j]["version"] = ContentOf(k).value["version"] }

\* The entries that carry the version or the owner of directory k, whatever
\* else the descriptor has.
TracesOf(k, apps) ==
  { j \in DOMAIN apps :
      \/ apps[j]["version"] = << Digits[k + 1] >>
      \/ startsWith(apps[j]["slug"], << "o", Digits[k + 1] >>) }

Failed(op, file) == \E e \in errors : e.op = op /\ e.file = file

ManifestsOnDisk == existingCategoryFiles(releasesDir)

OnDisk(file) == file \in DOMAIN releasesDir.files

\* The loops over the descriptors and the categories are over.
ManifestsWritten == pc \in { "categories", "releases", "list", "cleanup", "done" }

CategoriesIndexWritten ==
  /\ pc \in { "releases", "list", "cleanup", "done" }
  /\ categoriesWithReleases # << >>
  /\ ~Failed("write", categoriesFileName)

ReleasesIndexWritten ==
  /\ pc \in { "list", "cleanup", "done" }
  /\ categorizedApps # << >>
  /\ ~Failed("write", releasesFileName)

\* The run went through reconciliation and returned.
Reconciled == pc = "done" /\ metadataFiles # << >>

IsSortedByName(apps) ==
  \A j \in 1..(Len(apps) - 1) :
    localeCompare(apps[j]["name"], apps[j + 1]["name"]) <= 0

\* A list of apps holds the descriptors of the directories ks, each once.
IsListOf(apps, ks) ==
  /\ Len(apps) = Cardinality(ks)
  /\ \A k \in ks : Cardinality(EntriesOf(k, apps)) = 1

\* ---------------------------------------------------------------- claims

\* C1: after a run in which nothing failed, every valid descriptor is in
\* exactly one category manifest of releases/, the manifest of its declared
\* category, once, and once in releases.json; also when two category names
\* give the same file name.
C1_ValidDescriptorInItsManifest ==
  (pc = "done" /\ errors = { }) =>
    \A k \in ValidDirs :
      LET category == ContentOf(k).value["category"]
          holders == { n \in ManifestsOnDisk :
                         EntriesOf(k, releasesDir.files[n].apps) # { } }
      IN  /\ holders = { releaseFileName(category) }
          /\ \A n \in holders :
               /\ releasesDir.files[n].category = category
               /\ Cardinality(EntriesOf(k, releasesDir.files[n].apps)) = 1
          /\ OnDisk(releasesFileName)
          /\ Cardinality(EntriesOf(k, releasesDir.files[releasesFileName].apps)) = 1

\* C2: a category manifest that was in releases/ before the run, of a
\* category that now has no valid descriptor, is not in releases/ once the
\* run has returned, when no removal failed; also when the root is missing
\* or no descriptor file is found.
C2_StaleManifestIsRemoved ==
  (pc = "done" /\ \A e \in errors : e.op # "unlink") =>
    \A n \in existingCategoryFiles(Before) :
      ValidIn(Before.files[n].category) = { } => ~OnDisk(n)

\* C3: a descriptor that misses a required field (absent, null or the empty
\* string) is invalid: once the loop has passed it, it is in no category
\* list, exactly one warning was logged for its path, naming the first
\* missing field (the missing field, when it is the only one), the loop went
\* on to every other descriptor, and what the run writes (the category
\* manifests, the count of categories.json, releases.json) leaves it out.
C3_DamagedDescriptorIsSkipped ==
  \A k \in Described :
    (/\ ContentOf(k).parses
     /\ MissingFields(ContentOf(k).value) # { }
     /\ pc \notin { "start", "group" }) =>
      LET path == Append(DirOf(k), "metadata.json")
          about == { i \in DOMAIN warnings : warnings[i].path = path }
          missing == MissingFields(ContentOf(k).value)
      IN  /\ \A i \in DOMAIN categorizedApps :
               \A j \in DOMAIN categorizedApps[i].apps :
                 categorizedApps[i].apps[j]["filePath"] # DirOf(k)
          /\ Cardinality(about) = 1
          /\ \A i \in about :
               /\ warnings[i].about \in missing
               /\ \A j \in DOMAIN requiredFields :
                    requiredFields[j] = warnings[i].about =>
                      \A h \in 1..(j - 1) : requiredFields[h] \notin missing
          /\ cursor = Len(metadataFiles) + 1
          /\ processedCount = Cardinality(ValidDirs)
          /\ processedCount + skippedCount = Cardinality(Described)
          /\ \A v \in ValidDirs :
               \E i \in DOMAIN categorizedApps :
                 \E j \in DOMAIN categorizedApps[i].apps :
                   categorizedApps[i].apps[j]["filePath"] = DirOf(v)
          /\ \A n \in Range(releaseFiles) :
               TracesOf(k, releasesDir.files[n].apps) = { }
          /\ CategoriesIndexWritten =>
               releasesDir.files[categoriesFileName].totalApps
                 = Cardinality(ValidDirs)
          /\ ReleasesIndexWritten =>
               /\ TracesOf(k, releasesDir.files[releasesFileName].apps) = { }
               /\ releasesDir.files[releasesFileName].count
                    = Cardinality(ValidDirs)

C3_Witness ==
  /\ pc = "done"
  /\ skippedCount = 1
  /\ processedCount >= 1
  /\ ReleasesIndexWritten
  /\ \E k \in Described :
       /\ ContentOf(k).parses
       /\ MissingFields(ContentOf(k).value) = { "owner" }
       /\ "owner" \in DOMAIN ContentOf(k).value
       /\ ContentOf(k).value["owner"] = << >>
       /\ k < Len(repositories.items)

\* C4: a second run on the unchanged tree, after a first run in which
\* nothing failed and with no failure of its own, leaves releases/ with the
\* same files and the same contents as the first run left.
C4_SecondRunChangesNothing ==
  (pass = "again" /\ pc = "done" /\ errors = { }) => releasesDir = firstRun.dir

C4_Witness ==
  /\ pass = "again"
  /\ pc = "done"
  /\ errors = { }
  /\ Len(releaseFiles) >= 1
  /\ prior # firstRun.dir
  /\ releasesDir = firstRun.dir

\* C5: when the root does not exist or holds no descriptor file, the list of
\* descriptor files is empty, and the run returns with exit status 0 having
\* written nothing to releases/ and not created it.
C5_NoDescriptorsNoOutput ==
  (Described = { } /\ pc # "start") =>
    /\ metadataFiles = << >>
    /\ pc = "done"
    /\ exitCode = 0
    /\ releasesDir = Before

C5_Witness ==
  /\ pc = "done"
  /\ exitCode = 0
  /\ repositories.exists
  /\ repositories.items # << >>
  /\ Described = { }
  /\ ~releasesDir.exists

\* The category whose manifest a file of this run holds did not fail to be
\* written, has that file name, and the file lists its valid descriptors.
HoldsAWrittenCategory(n) ==
  LET category == releasesDir.files[n].category
  IN  /\ hasCategory(categorizedApps, category)
      /\ releaseFileName(category) = n
      /\ \A e \in errors : e.op = "write" => e.category # category
      /\ IsListOf(releasesDir.files[n].apps, ValidIn(category))

\* A write or a removal that threw left the file as the run found it.
LeftAsFound(n) ==
  (n \in DOMAIN Before.files <=> OnDisk(n))
    /\ (OnDisk(n) => releasesDir.files[n] = Before.files[n])

\* C6: a failure stays where it happens.  When the write of one category
\* manifest fails, every other category with a valid descriptor has its
\* manifest written, categories.json and releases.json are written or their
\* own write is what failed, reconciliation removes every manifest the run
\* did not write (or the removal is what failed), and the run never ends in
\* the fatal exit but goes on to the next category and returns with exit
\* status 0; a failed write of an index file or a failed removal leaves every
\* other file as a run without that failure leaves it.
C6_FailuresAreContained ==
  /\ errors # { } => pc # "failed"
  /\ pc = "done" => exitCode = 0
  /\ pc = "manifests" => categoryCursor \in DOMAIN categorizedApps
  /\ ManifestsWritten =>
       /\ \A i \in DOMAIN categorizedApps :
            LET category == categorizedApps[i].category
            IN  \/ \E e \in errors : e.op = "write" /\ e.category = category
                \/ /\ releaseFileName(category) \in Range(releaseFiles)
                   /\ category \in Range(categoriesWithReleases)
                   /\ OnDisk(releaseFileName(category))
       /\ \A n \in Range(releaseFiles) : HoldsAWrittenCategory(n)
  /\ (pc \in { "list", "cleanup", "done" } /\ categoriesWithReleases # << >>) =>
       IF Failed("write", categoriesFileName)
         THEN LeftAsFound(categoriesFileName)
         ELSE /\ OnDisk(categoriesFileName)
              /\ { e.name :
                     e \in Range(releasesDir.files[categoriesFileName].categories) }
                   = Range(categoriesWithReleases)
  /\ (pc \in { "list", "cleanup", "done" } /\ categorizedApps # << >>) =>
       IF Failed("write", releasesFileName)
         THEN LeftAsFound(releasesFileName)
         ELSE /\ OnDisk(releasesFileName)
              /\ IsListOf(releasesDir.files[releasesFileName].apps, ValidDirs)
  /\ Reconciled =>
       /\ \A n \in ManifestsOnDisk :
            n \in Range(releaseFiles) \/ Failed("unlink", n)
       /\ \A n \in existingCategoryFiles(Before) :
            (n \notin Range(releaseFiles) /\ Failed("unlink", n)) =>
              LeftAsFound(n)

C6_Witness ==
  /\ pc = "done"
  /\ exitCode = 0
  /\ \E e \in errors : e.op = "write" /\ e.category # << >>
  /\ Len(releaseFiles) >= 1
  /\ CategoriesIndexWritten
  /\ ReleasesIndexWritten
  /\ \E n \in existingCategoryFiles(prior) : ~OnDisk(n)

\* C7: the allow-list does not touch the outputs.  Every valid descriptor is
\* grouped whatever the list holds, and a run that differs from another in
\* the allow-list only (other names, names without a descriptor's category,
\* a list that cannot be loaded) leaves the same releases/.
C7_AllowListIsAdvisory ==
  /\ (pc \notin { "start", "group" }) =>
       \A v \in ValidDirs :
         \E i \in DOMAIN categorizedApps :
           /\ categorizedApps[i].category = ContentOf(v).value["category"]
           /\ \E j \in DOMAIN categorizedApps[i].apps :
                categorizedApps[i].apps[j]["filePath"] = DirOf(v)
  /\ (pass = "replay" /\ pc = "done") =>
       /\ releasesDir = firstRun.dir
       /\ errors = firstRun.errors

C7_Witness ==
  /\ pass = "replay"
  /\ pc = "done"
  /\ allowList = Malformed
  /\ validCategories = << >>
  /\ \E v \in ValidDirs : ContentOf(v).value["category"] = DevTools
  /\ OnDisk(releaseFileName(DevTools))
  /\ releasesDir # prior

\* C8: every category manifest a run wrote, and releases.json when the run
\* wrote it, lists its apps in non-decreasing order of name (the order of
\* localeCompare), holds each valid descriptor it covers once and nothing
\* else, and has a count equal to the length of the list; whatever the
\* order the descriptor files were found in.
C8_ListsAreSortedAndComplete ==
  /\ \A n \in Range(releaseFiles) :
       LET manifest == releasesDir.files[n]
       IN  /\ IsSortedByName(manifest.apps)
           /\ manifest.count = Len(manifest.apps)
           /\ IsListOf(manifest.apps, ValidIn(manifest.category))
  /\ ReleasesIndexWritten =>
       LET index == releasesDir.files[releasesFileName]
       IN  /\ IsSortedByName(index.apps)
           /\ index.count = Len(index.apps)
           /\ IsListOf(index.apps, ValidDirs)

C8_Witness ==
  /\ pc = "done"
  /\ ValidDirs = { 1, 2 }
  /\ ContentOf(1).value["name"] = << "F","o","o" >>
  /\ ContentOf(2).value["name"] = << "b","a","r" >>
  /\ ContentOf(1).value["category"] = ContentOf(2).value["category"]
  /\ \E n \in Range(releaseFiles) :
       /\ releasesDir.files[n].count = 2
       /\ releasesDir.files[n].apps[1]["name"] = << "b","a","r" >>
  /\ ReleasesIndexWritten
  /\ releasesDir.files[releasesFileName].apps[2]["name"] = << "F","o","o" >>

\* C9: in every categories.json a run wrote, totalCategories is the number
\* of entries of categories and totalApps is the sum of their counts, also
\* when the write of some category manifest failed.
C9_CategoriesIndexTotals ==
  CategoriesIndexWritten =>
    LET index == releasesDir.files[categoriesFileName]
    IN  /\ index.totalCategories = Len(index.categories)
        /\ index.totalApps =
             SumSeq([ i \in DOMAIN index.categories |-> index.categories[i].count ])

\* C10: after a run that went through reconciliation with no failure, the
\* index files in releases/ agree with the category manifests in releases/:
\* categories.json, if there, has one entry for each manifest file, with its
\* count, and nothing else; releases.json, if there, lists the apps of those
\* manifests and nothing else.
C10_IndexesAgreeWithManifests ==
  (Reconciled /\ errors = { }) =>
    /\ OnDisk(categoriesFileName) =>
         LET entries == releasesDir.files[categoriesFileName].categories
         IN  /\ \A i \in DOMAIN entries :
                  LET n == CategoryPrefix \o entries[i].slug \o JsonSuffix
                  IN  /\ OnDisk(n)
                      /\ releasesDir.files[n].category = entries[i].name
                      /\ releasesDir.files[n].count = entries[i].count
             /\ \A n \in ManifestsOnDisk :
                  Cardinality({ i \in DOMAIN entries :
                    CategoryPrefix \o entries[i].slug \o JsonSuffix = n }) = 1
    /\ OnDisk(releasesFileName) =>
         LET apps == releasesDir.files[releasesFileName].apps
             listed(list) == { << list[j]["name"], list[j]["version"] >> :
                               j \in DOMAIN list }
         IN  /\ listed(apps) =
                  UNION { listed(releasesDir.files[n].apps) : n \in ManifestsOnDisk }
             /\ Len(apps) =
                  Cardinality(UNION { { << n, j >> :
                                        j \in DOMAIN releasesDir.files[n].apps } :
                                      n \in ManifestsOnDisk })

====
